---- MODULE Spec2Model ----
(***************************************************************************)
(* A model of the cryptopals set-1 code: the byte container Data<B> with   *)
(* its XOR and its hexadecimal / base64 representations (src/src/data.rs), *)
(* the free-standing helpers of src/src/util.rs, repeating-key XOR         *)
(* (src/src/attack/repeating_key_xor.rs) and the single-byte-XOR attack    *)
(* with its frequency scorer (src/src/attack/single_byte_xor.rs).          *)
(*                                                                         *)
(* A Vec<u8> is a sequence of numbers 0..255.  A call that can panic       *)
(* returns [ok |-> FALSE] and otherwise [ok |-> TRUE, val |-> v].          *)
(* The f32 scores are kept exactly, as integers in units of 10^-8: the     *)
(* frequency table has four decimals, so a difference is a multiple of     *)
(* 10^-4 and its square a multiple of 10^-8.  f32 rounding is not          *)
(* modelled.                                                               *)
(***************************************************************************)
EXTENDS Integers, Sequences, FiniteSets

VARIABLES
  fn,       \* the function being executed ("none" before any call)
  pc,       \* "idle" | "loop" | "done" | "again" | "panic"
  lhs,      \* first argument (self, hex1, message, ciphertext, value, string)
  rhs,      \* second argument (rhs, hex2, key)
  res,      \* the value returned
  i,        \* loop position: the key candidate of the attack, the digit of hex_to_b64
  item,     \* the attack's current (arg, score, msg) item, <<>> before the first
  argmax,   \* the accumulator of min_by: an Option<(u8, f32, ASCIIData)>
  acc,      \* hex_to_b64: the u16 accumulator
  count,    \* hex_to_b64: digits left in the current group of three
  overflow_checks  \* the profile the call was built with: TRUE panics on integer
                   \* overflow (debug), FALSE wraps (release)

vars == <<fn, pc, lhs, rhs, res, i, item, argmax, acc, count, overflow_checks>>

----------------------------------------------------------------------------
(* Bounds of the model *)

MaxXorLen == 3
MaxCtLen == 2
MaxStrLen == 2
MaxHexLen == 5

(* Sample byte values the inputs are drawn from. *)
XorBytes == {1, 101, 255}
CtBytes == {32, 69, 160}
\* '/', '0', '9', 'A', 'a', 'f', 'g'
StrChars == {47, 48, 57, 65, 97, 102, 103}
B64InDigits == {0, 1, 9, 15}
HexDigits == {0, 10, 15}
\* '0', 'f', 'g'
XorStrChars == {48, 102, 103}

RECURSIVE SeqsUpTo(_, _)
SeqsUpTo(S, n) ==
  IF n = 0 THEN {<<>>}
  ELSE LET shorter == SeqsUpTo(S, n - 1)
       IN  shorter \cup {Append(s, x) : s \in {t \in shorter : Len(t) = n - 1}, x \in S}

----------------------------------------------------------------------------
(* u8 arithmetic *)

U8 == 256
U16 == 65536

\* bitwise exclusive or of two u8 values, bit by bit
RECURSIVE xor_bits(_, _, _)
xor_bits(x, y, n) ==
  IF n = 0 THEN 0
  ELSE (((x % 2) + (y % 2)) % 2) + 2 * xor_bits(x \div 2, y \div 2, n - 1)

\* a bitwise or in place of the exclusive or
RECURSIVE or_bits(_, _, _)
or_bits(x, y, n) ==
  IF n = 0 THEN 0
  ELSE (IF (x % 2) + (y % 2) > 0 THEN 1 ELSE 0) + 2 * or_bits(x \div 2, y \div 2, n - 1)

u8_or(x, y) == or_bits(x, y, 8)

u8_xor(x, y) == xor_bits(x, y, 8)

Ok(v) == [ok |-> TRUE, val |-> v]
Panic == [ok |-> FALSE]

----------------------------------------------------------------------------
(* data.rs: Data<B> *)

\* an XOR that stops at the shorter operand instead of panicking
bitxor_truncating(self, other) ==
  LET n == IF Len(self) < Len(other) THEN Len(self) ELSE Len(other)
  IN  Ok([k \in 1..n |-> u8_xor(self[k], other[k])])

\* an XOR that pairs self[k] with the byte after other[k]
bitxor_shifted(self, other) ==
  LET n1 == Len(self)
      n2 == Len(other)
  IN  IF n1 # n2 THEN Panic
      ELSE Ok([k \in 1..n1 |-> u8_xor(self[k], other[(k % n2) + 1])])

\* BitXor<&Data<B>> for &Data<B>
bitxor(self, other) ==
  LET n1 == Len(self)
      n2 == Len(other)
  IN  IF n1 # n2 THEN Panic
      ELSE Ok([k \in 1..n1 |-> u8_xor(self[k], other[k])])

\* StandardBase16::default().ascii_lookup = "0123456789abcdef"
hex_lookup == <<48, 49, 50, 51, 52, 53, 54, 55, 56, 57, 97, 98, 99, 100, 101, 102>>

\* StandardBase64::default().ascii_lookup = "A-Za-z0-9+/"
b64_lookup ==
  [k \in 1..64 |->
     IF k <= 26 THEN 65 + (k - 1)
     ELSE IF k <= 52 THEN 97 + (k - 27)
     ELSE IF k <= 62 THEN 48 + (k - 53)
     ELSE IF k = 63 THEN 43 ELSE 47]

\* a Vec index: out of bounds panics
index(lookup, b) == IF b + 1 \in DOMAIN lookup THEN Ok(lookup[b + 1]) ELSE Panic

\* StandardBase16::byte_to_ascii
byte_to_ascii_b16(byte) == index(hex_lookup, byte)

\* StandardBase16::ascii_to_byte: a digit, and otherwise 10 + (ascii_code - 97)
\* in u8, which overflows below 'a' (a panic with overflow checks, a wrap
\* without) and is unchecked above 'f'
ascii_to_byte_b16(ascii_code, checks) ==
  IF 48 <= ascii_code /\ ascii_code <= 57 THEN Ok(ascii_code - 48)
  ELSE IF ascii_code < 97 /\ checks THEN Panic
  ELSE LET d == (ascii_code - 97) % U8
       IN  IF 10 + d >= U8 /\ checks THEN Panic ELSE Ok((10 + d) % U8)

\* all results of a sequence of calls, or the first panic
AllOk(rs) ==
  IF \E k \in DOMAIN rs : ~rs[k].ok THEN Panic
  ELSE Ok([k \in DOMAIN rs |-> rs[k].val])

\* ByteRepresentation::ascii_to_bytes for StandardBase16
ascii_to_bytes_b16(ascii_codes, checks) ==
  AllOk([k \in DOMAIN ascii_codes |-> ascii_to_byte_b16(ascii_codes[k], checks)])

\* ByteRepresentation::bytes_to_ascii for StandardBase16
bytes_to_ascii_b16(bytes) ==
  AllOk([k \in DOMAIN bytes |-> byte_to_ascii_b16(bytes[k])])

\* From<String> for Data<StandardBase16>
HexData_from(value, checks) == ascii_to_bytes_b16(value, checks)

\* Display for Data<StandardBase16>: to_string()
HexData_to_string(bytes) == bytes_to_ascii_b16(bytes)

\* the value of one character for hex::decode: 0-9, a-f and A-F are digits
hex_val(c) ==
  IF 48 <= c /\ c <= 57 THEN Ok(c - 48)
  ELSE IF 97 <= c /\ c <= 102 THEN Ok(c - 97 + 10)
  ELSE IF 65 <= c /\ c <= 70 THEN Ok(c - 65 + 10)
  ELSE Panic

\* hex::decode(value).unwrap(): an odd length or a character that is no hex
\* digit is an Err, which unwrap turns into a panic
hex_decode_unwrap(s) ==
  IF Len(s) % 2 # 0 THEN Panic
  ELSE AllOk([k \in 1..(Len(s) \div 2) |->
         LET hi == hex_val(s[2 * k - 1])
             lo == hex_val(s[2 * k])
         IN  IF hi.ok /\ lo.ok THEN Ok(16 * hi.val + lo.val) ELSE Panic])

\* ASCIIData::from_hex
from_hex(value) == hex_decode_unwrap(value)

\* ASCIIData::from_hex_data: decodes the bytes the HexData holds
from_hex_data(value) == hex_decode_unwrap(value)

\* ASCIIData::to_hex_string: hex::encode
to_hex_string(bytes) ==
  [k \in 1..(2 * Len(bytes)) |->
     LET b == bytes[(k + 1) \div 2]
     IN  hex_lookup[(IF k % 2 = 1 THEN b \div 16 ELSE b % 16) + 1]]

----------------------------------------------------------------------------
(* util.rs *)

\* hex_xor
hex_xor(hex1, hex2) ==
  LET n == Len(hex1)
      m == Len(hex2)
  IN  IF n # m THEN Panic
      ELSE AllOk([k \in 1..n |-> index(hex_lookup, u8_xor(hex1[k], hex2[k]))])

\* u8::from_str_radix(&(b as char).to_string(), 16): one hex digit of either
\* case; anything else (a sign, a non-ASCII char) is an Err
from_str_radix16(b) == hex_val(b)

\* string_to_hex
string_to_hex(hex_string) ==
  AllOk([k \in DOMAIN hex_string |-> from_str_radix16(hex_string[k])])

----------------------------------------------------------------------------
(* attack/repeating_key_xor.rs *)

\* a key that is not repeated: its last byte fills the rest
no_cycle_take(key, n) ==
  IF Len(key) = 0 THEN <<>>
  ELSE [k \in 1..n |-> key[IF k <= Len(key) THEN k ELSE Len(key)]]

\* key.into_iter().cycle().take(n): nothing when the key is empty
cycle_take(key, n) ==
  IF Len(key) = 0 THEN <<>>
  ELSE [k \in 1..n |-> key[((k - 1) % Len(key)) + 1]]

\* encrypt_repeating_key_xor
encrypt_repeating_key_xor(message, key) ==
  bitxor(message, cycle_take(key, Len(message)))

----------------------------------------------------------------------------
(* data.rs: From<&HexData> for B64Data, and util.rs: hex_to_b64 *)

pows == <<1, 16, 256>>

\* a first group that is always taken to be full
start_count_full(n) == 3

\* let mut count = if start_count == 0 { 3 } else { start_count }
start_count(n) == IF n % 3 = 0 THEN 3 ELSE n % 3

\* acc += (*bytes as u16) * pows[count - 1], in u16
acc_add(a, digit, c, checks) ==
  LET sum == a + digit * pows[c]
  IN  IF sum >= U16 /\ checks THEN Panic ELSE Ok(sum % U16)

\* the two digits pushed when a group is complete: (acc / 64) as u8 and
\* (acc % 64) as u8 for B64Data, their b64_lookup characters for hex_to_b64
push_group(f, out, a) ==
  IF f = "B64Data_from"
    THEN Ok(out \o <<(a \div 64) % U8, (a % 64) % U8>>)
    ELSE LET q == index(b64_lookup, a \div 64)
             r == index(b64_lookup, a % 64)
         IN  IF q.ok /\ r.ok THEN Ok(out \o <<q.val, r.val>>) ELSE Panic

----------------------------------------------------------------------------
(* attack/single_byte_xor.rs *)

\* ENGLISH_CHAR_FREQUENCIES, in units of 10^-4
FreqScale == 10000

ENGLISH_CHAR_FREQUENCIES ==
  <<653, 126, 223, 328, 1027, 198, 162, 498, 567, 10, 56, 332, 203, 517,
    616, 150, 8, 499, 532, 752, 228, 80, 170, 14, 143, 5, 1823>>

uppercase(b) == 65 <= b /\ b <= 90
lowercase(b) == 97 <= b /\ b <= 122

\* if uppercase(i) || lowercase(i) || i == 32
in_alphabet(b) == uppercase(b) \/ lowercase(b) \/ b = 32

\* a table index that takes the space for a lowercase letter
freq_index_no_space(b) == IF uppercase(b) THEN b - 65 ELSE (b - 97) % 26

\* let j = if uppercase(i) { i - 65 } else if i == 32 { 26 } else { i - 97 }
freq_index(b) == IF uppercase(b) THEN b - 65 ELSE IF b = 32 THEN 26 ELSE b - 97

\* for &b in data.bytes() { counts[b as usize] += 1 }
byte_counts(data) ==
  [b \in 0..(U8 - 1) |-> Cardinality({k \in DOMAIN data : data[k] = b})]

\* one pass of the loop body: diff for byte value b, in units of 10^-4
diff_of(counts, n, b) ==
  IF in_alphabet(b)
    THEN counts[b] * FreqScale - ENGLISH_CHAR_FREQUENCIES[freq_index(b) + 1] * n
    ELSE counts[b] * FreqScale

\* for i in 0..256 { ...; norm_squared += diff * diff }: the sum of diff * diff
\* over the byte values lo..hi-1, split in halves to keep the evaluation shallow
RECURSIVE norm_squared_from(_, _, _, _)
norm_squared_from(counts, n, lo, hi) ==
  IF hi - lo = 1
    THEN LET diff == diff_of(counts, n, lo) IN diff * diff
    ELSE LET mid == (lo + hi) \div 2
         IN  norm_squared_from(counts, n, lo, mid) + norm_squared_from(counts, n, mid, hi)

\* freq_and_alphabet_score, in units of 10^-8
freq_and_alphabet_score(data) == norm_squared_from(byte_counts(data), Len(data), 0, U8)

\* let build_key = |character| ASCIIData::from(vec![character; n])
build_key(character, n) == [k \in 1..n |-> character]

\* a chain whose reported key runs one ahead of the key used
zip_item_skewed(k) == <<k + 1, k>>

\* (0..256u16).zip(0..256u16): the item at position k is (arg, i) = (k, k)
zip_item(k) == <<k, k>>

\* the two map() stages: (arg as u8, freq_and_alphabet_score(&msg), msg) with
\* msg = ciphertext ^ &build_key(i as u8)
candidate(ciphertext, k) ==
  LET z == zip_item(k)
      msg == bitxor(ciphertext, build_key(z[2] % U8, Len(ciphertext)))
  IN  IF msg.ok
        THEN Ok([key |-> z[1] % U8, score |-> freq_and_alphabet_score(msg.val),
                 msg |-> msg.val])
        ELSE Panic

None == [some |-> FALSE]
Some(v) == [some |-> TRUE, val |-> v]

\* s1.partial_cmp(s2).unwrap_or(cmp::Ordering::Equal)
partial_cmp(s1, s2) == IF s1 < s2 THEN "Less" ELSE IF s1 > s2 THEN "Greater" ELSE "Equal"

\* a fold in which the later of two equal items wins (as max_by has it)
min_by_last(a, y) ==
  IF ~a.some THEN Some(y)
  ELSE IF partial_cmp(a.val.score, y.score) = "Less" THEN a ELSE Some(y)

\* a fold behind the documented filter: an item with letterRatio <= 0.7 is
\* dropped before it is compared
min_by_filtered(a, y) ==
  LET letters == Cardinality({k \in 1..Len(y.msg) : in_alphabet(y.msg[k])})
  IN  IF Len(y.msg) > 0 /\ 10 * letters <= 7 * Len(y.msg) THEN a
      ELSE IF ~a.some THEN Some(y)
      ELSE IF partial_cmp(a.val.score, y.score) = "Greater" THEN Some(y) ELSE a

\* Iterator::min_by, one step of its fold: the later item replaces the
\* accumulator only when the accumulator compares Greater
min_by(a, y) ==
  IF ~a.some THEN Some(y)
  ELSE IF partial_cmp(a.val.score, y.score) = "Greater" THEN Some(y) ELSE a

\* argmax.unwrap()
unwrap(a) == IF a.some THEN Ok(a.val) ELSE Panic

----------------------------------------------------------------------------
(* The state machine: a call starts from the idle state with its arguments  *)
(* drawn from the sample sets; the two loops run one iteration per step.     *)

XorSeqs == SeqsUpTo(XorBytes, MaxXorLen)
HexDigitSeqs == SeqsUpTo(HexDigits, MaxXorLen)
CipherTexts == SeqsUpTo(CtBytes, MaxCtLen)
Strings == SeqsUpTo(StrChars, MaxStrLen)
XorStrings == SeqsUpTo(XorStrChars, MaxStrLen)
B64Inputs == SeqsUpTo(B64InDigits, MaxHexLen)

Init ==
  /\ fn = "none"
  /\ pc = "idle"
  /\ lhs = <<>>
  /\ rhs = <<>>
  /\ res = <<>>
  /\ i = 0
  /\ item = <<>>
  /\ argmax = None
  /\ acc = 0
  /\ count = 0
  /\ overflow_checks = TRUE

\* a call of one function on (a, b), built with or without overflow checks,
\* that returns r or panics
Return(f, a, b, r, checks) ==
  /\ fn' = f
  /\ lhs' = a
  /\ rhs' = b
  /\ pc' = IF r.ok THEN "done" ELSE "panic"
  /\ res' = IF r.ok THEN r.val ELSE <<>>
  /\ overflow_checks' = checks
  /\ UNCHANGED <<i, item, argmax, acc, count>>

\* the same function applied to the value just returned and the same rhs
Again(r) ==
  /\ pc' = IF r.ok THEN "again" ELSE "panic"
  /\ res' = IF r.ok THEN r.val ELSE <<>>
  /\ UNCHANGED <<fn, lhs, rhs, i, item, argmax, acc, count, overflow_checks>>

\* &a ^ &b
BitXorCall ==
  /\ pc = "idle"
  /\ \E a \in XorSeqs, b \in XorSeqs : Return("bitxor", a, b, bitxor(a, b), overflow_checks)

\* &(&m ^ &k) ^ &k
BitXorAgain ==
  /\ pc = "done"
  /\ fn = "bitxor"
  /\ Again(bitxor(res, rhs))

\* hex_xor(&hex1, &hex2) on digit values
HexXorCall ==
  /\ pc = "idle"
  /\ \E a \in HexDigitSeqs, b \in HexDigitSeqs : Return("hex_xor", a, b, hex_xor(a, b), overflow_checks)

\* (HexData::from(s1) ^ HexData::from(s2)).to_string(), as tests::test_hex_xor
HexDataXorCall ==
  /\ pc = "idle"
  /\ \E a \in XorStrings, b \in XorStrings, checks \in BOOLEAN :
       LET hex1 == HexData_from(a, checks)
           hex2 == HexData_from(b, checks)
           x == IF hex1.ok /\ hex2.ok THEN bitxor(hex1.val, hex2.val) ELSE Panic
       IN  Return("hex_data_xor", a, b,
                  IF x.ok THEN HexData_to_string(x.val) ELSE Panic, checks)

\* encrypt_repeating_key_xor(&message, key)
EncryptCall ==
  /\ pc = "idle"
  /\ \E m \in XorSeqs, k \in XorSeqs :
       Return("encrypt_repeating_key_xor", m, k, encrypt_repeating_key_xor(m, k),
              overflow_checks)

\* encrypt_repeating_key_xor(&encrypt_repeating_key_xor(&message, key), key)
EncryptAgain ==
  /\ pc = "done"
  /\ fn = "encrypt_repeating_key_xor"
  /\ Again(encrypt_repeating_key_xor(res, rhs))

\* ASCIIData::from_hex(s)
FromHexCall ==
  /\ pc = "idle"
  /\ \E s \in Strings : Return("from_hex", s, <<>>, from_hex(s), overflow_checks)

\* ASCIIData::from_hex_data(value) with value.bytes = s
FromHexDataCall ==
  /\ pc = "idle"
  /\ \E s \in Strings :
       Return("from_hex_data", s, <<>>, from_hex_data(s), overflow_checks)

\* HexData::from(s)
HexDataFromCall ==
  /\ pc = "idle"
  /\ \E s \in Strings, checks \in BOOLEAN :
       Return("HexData_from", s, <<>>, HexData_from(s, checks), checks)

\* string_to_hex(s)
StringToHexCall ==
  /\ pc = "idle"
  /\ \E s \in Strings :
       Return("string_to_hex", s, <<>>, string_to_hex(s), overflow_checks)

\* B64Data::from(&value) and hex_to_b64(&hex): the statements before the loop
B64Call ==
  /\ pc = "idle"
  /\ \E f \in {"B64Data_from", "hex_to_b64"}, value \in B64Inputs, checks \in BOOLEAN :
       /\ fn' = f
       /\ lhs' = value
       /\ count' = start_count(Len(value))
       /\ overflow_checks' = checks
  /\ acc' = 0
  /\ i' = 0
  /\ res' = <<>>
  /\ pc' = "loop"
  /\ UNCHANGED <<rhs, item, argmax>>

\* one iteration of `for bytes in value.bytes()`
B64Next ==
  /\ pc = "loop"
  /\ fn \in {"B64Data_from", "hex_to_b64"}
  /\ i < Len(lhs)
  /\ LET a == acc_add(acc, lhs[i + 1], count, overflow_checks)
         full == count - 1 = 0
         out == IF a.ok /\ full THEN push_group(fn, res, a.val) ELSE Ok(res)
     IN  IF a.ok /\ out.ok
           THEN /\ res' = out.val
                /\ acc' = IF full THEN 0 ELSE a.val
                /\ count' = IF full THEN 3 ELSE count - 1
                /\ i' = i + 1
                /\ pc' = "loop"
           ELSE /\ pc' = "panic"
                /\ UNCHANGED <<res, acc, count, i>>
  /\ UNCHANGED <<fn, lhs, rhs, item, argmax, overflow_checks>>

\* return B64Data::from(b64_bytes)
B64Return ==
  /\ pc = "loop"
  /\ fn \in {"B64Data_from", "hex_to_b64"}
  /\ i = Len(lhs)
  /\ pc' = "done"
  /\ UNCHANGED <<fn, lhs, rhs, res, i, item, argmax, acc, count, overflow_checks>>

\* attack_single_byte_xor(&ciphertext): the iterator chain is built
AttackCall ==
  /\ pc = "idle"
  /\ \E ciphertext \in CipherTexts : lhs' = ciphertext
  /\ fn' = "attack_single_byte_xor"
  /\ i' = 0
  /\ item' = <<>>
  /\ argmax' = None
  /\ pc' = "loop"
  /\ UNCHANGED <<rhs, res, acc, count, overflow_checks>>

\* min_by pulls the next item of the chain and folds it
AttackNext ==
  /\ pc = "loop"
  /\ fn = "attack_single_byte_xor"
  /\ i < U8
  /\ LET c == candidate(lhs, i)
     IN  IF c.ok
           THEN /\ item' = c.val
                /\ argmax' = min_by(argmax, c.val)
                /\ i' = i + 1
                /\ pc' = "loop"
           ELSE /\ pc' = "panic"
                /\ UNCHANGED <<item, argmax, i>>
  /\ UNCHANGED <<fn, lhs, rhs, res, acc, count, overflow_checks>>

\* return argmax.unwrap()
AttackReturn ==
  /\ pc = "loop"
  /\ fn = "attack_single_byte_xor"
  /\ i = U8
  /\ LET r == unwrap(argmax)
     IN  /\ pc' = IF r.ok THEN "done" ELSE "panic"
         /\ res' = IF r.ok THEN r.val ELSE <<>>
  /\ UNCHANGED <<fn, lhs, rhs, i, item, argmax, acc, count, overflow_checks>>

NextData ==
  \/ BitXorCall
  \/ BitXorAgain
  \/ HexXorCall
  \/ HexDataXorCall
  \/ EncryptCall
  \/ EncryptAgain

NextHex ==
  \/ HexDataFromCall
  \/ StringToHexCall
  \/ FromHexCall
  \/ FromHexDataCall

NextB64 ==
  \/ B64Call
  \/ B64Next
  \/ B64Return

NextAttack ==
  \/ AttackCall
  \/ AttackNext
  \/ AttackReturn

Next == NextData \/ NextHex \/ NextB64 \/ NextAttack

Spec == Init /\ [][Next]_vars
SpecData == Init /\ [][NextData]_vars
SpecHex == Init /\ [][NextHex]_vars
SpecB64 == Init /\ [][NextB64]_vars
SpecAttack == Init /\ [][NextAttack]_vars

----------------------------------------------------------------------------
(* Properties of XOR and repeating-key XOR, checked under SpecData *)

IsHexChar(c) == (48 <= c /\ c <= 57) \/ (97 <= c /\ c <= 102)
HexCharValue(c) == IF c <= 57 THEN c - 48 ELSE c - 87
HexCharOf(d) == IF d <= 9 THEN 48 + d ELSE 87 + d
WellFormed(str) == \A k \in 1..Len(str) : IsHexChar(str[k])

\* C4: an XOR of two sequences of different lengths (Data's bitxor, util's
\* hex_xor, and the HexData XOR of two strings) always panics and leaves no
\* result byte, whichever operand is the shorter one, the empty one included.
C4_LengthMismatchPanics ==
  (fn \in {"bitxor", "hex_xor", "hex_data_xor"} /\ Len(lhs) # Len(rhs))
    => (pc = "panic" /\ res = <<>>)

C4_Witness ==
  /\ fn = "bitxor"
  /\ pc = "panic"
  /\ Len(lhs) = 0
  /\ Len(rhs) = 2

\* C5: for operands of equal length n the XOR returns n bytes, the k-th being
\* lhs[k] XOR rhs[k]; a sequence XORed with itself is all zeros; hex_xor and
\* the XOR of two well-formed hex strings give the hex digit of the XOR of the
\* two digits at each place.
C5_XorIndexAligned ==
  /\ (fn = "bitxor" /\ pc \in {"done", "panic"} /\ Len(lhs) = Len(rhs)) =>
       /\ pc = "done"
       /\ Len(res) = Len(lhs)
       /\ \A k \in 1..Len(lhs) : res[k] = u8_xor(lhs[k], rhs[k])
       /\ lhs = rhs => \A k \in 1..Len(res) : res[k] = 0
  /\ (fn = "hex_xor" /\ Len(lhs) = Len(rhs)) =>
       /\ pc = "done"
       /\ Len(res) = Len(lhs)
       /\ \A k \in 1..Len(lhs) : res[k] = HexCharOf(u8_xor(lhs[k], rhs[k]))
  /\ (fn = "hex_data_xor" /\ Len(lhs) = Len(rhs) /\ WellFormed(lhs) /\ WellFormed(rhs)) =>
       /\ pc = "done"
       /\ Len(res) = Len(lhs)
       /\ \A k \in 1..Len(lhs) :
            res[k] = HexCharOf(u8_xor(HexCharValue(lhs[k]), HexCharValue(rhs[k])))

C5_Witness ==
  /\ fn = "bitxor"
  /\ pc = "done"
  /\ lhs = <<1, 101, 255>>
  /\ rhs = <<255, 1, 1>>
  /\ res = <<254, 100, 254>>

\* C6: XORing the result of m XOR k with k again gives m back.
C6_SelfInverse ==
  (fn = "bitxor" /\ pc \in {"again", "panic"} /\ Len(lhs) = Len(rhs))
    => (pc = "again" /\ res = lhs)

C6_Witness ==
  /\ fn = "bitxor"
  /\ pc = "again"
  /\ lhs = <<1, 101, 255>>
  /\ rhs = <<101, 255, 1>>

\* C9: with a non-empty key of length L, repeating-key XOR of a message of
\* length n returns n bytes, the k-th (from 0) being message[k] XOR
\* key[k mod L], also when L > n; encrypting the result again with the same
\* key returns the message.
C9_RepeatingKey ==
  (fn = "encrypt_repeating_key_xor" /\ Len(rhs) >= 1) =>
    /\ pc \in {"done", "again"}
    /\ Len(res) = Len(lhs)
    /\ pc = "done" =>
         \A k \in 0..(Len(lhs) - 1) :
           res[k + 1] = u8_xor(lhs[k + 1], rhs[(k % Len(rhs)) + 1])
    /\ pc = "again" => res = lhs

C9_Witness ==
  /\ fn = "encrypt_repeating_key_xor"
  /\ pc = "done"
  /\ lhs = <<1, 1, 1>>
  /\ rhs = <<101, 255>>
  /\ res = <<100, 254, 100>>

----------------------------------------------------------------------------
(* Properties of the hex parsers, checked under SpecHex *)

\* what the parsers are documented to reject: a character outside 0-9a-f,
\* and for the byte-pair decoders an odd number of characters
Malformed(f, str) ==
  \/ ~WellFormed(str)
  \/ f \in {"from_hex", "from_hex_data"} /\ Len(str) % 2 = 1

\* C7: no hex parser (from_hex, from_hex_data, HexData::from, string_to_hex)
\* returns a byte sequence for a malformed string: it fails.
C7_MalformedHexRejected ==
  (fn \in {"from_hex", "from_hex_data", "HexData_from", "string_to_hex"}
     /\ Malformed(fn, lhs))
    => pc = "panic"

----------------------------------------------------------------------------
(* Properties of the hex to base64 regrouping, checked under SpecB64 *)

\* the value of a sequence of digits read as a big-endian numeral
RECURSIVE Numeral(_, _)
Numeral(digits, base) ==
  IF Len(digits) = 0 THEN 0
  ELSE Numeral(SubSeq(digits, 1, Len(digits) - 1), base) * base + digits[Len(digits)]

CeilDiv(a, b) == (a + b - 1) \div b

\* the base64 digit an output element stands for: itself for B64Data, the
\* place of the character in the base64 alphabet for hex_to_b64
B64DigitOf(f, c) ==
  IF f = "B64Data_from" THEN c
  ELSE CHOOSE d \in 0..63 : b64_lookup[d + 1] = c

\* C8: for n >= 1 hex digits the regrouping never fails, returns
\* 2 * ceil(n / 3) base64 digits, each in 0..63, with the same value as a
\* base-64 numeral as the input has as a base-16 numeral, and the accumulator,
\* the digit about to be added included, never exceeds 4095.
C8_HexToB64Value ==
  (fn \in {"B64Data_from", "hex_to_b64"} /\ Len(lhs) >= 1) =>
    /\ pc \in {"loop", "done"}
    /\ acc <= 4095
    /\ (pc = "loop" /\ i < Len(lhs)) =>
         LET a == acc_add(acc, lhs[i + 1], count, overflow_checks)
         IN  a.ok /\ a.val <= 4095
    /\ pc = "done" =>
         LET digits == [k \in 1..Len(res) |-> B64DigitOf(fn, res[k])]
         IN  /\ Len(res) = 2 * CeilDiv(Len(lhs), 3)
             /\ \A k \in 1..Len(res) :
                  IF fn = "B64Data_from" THEN res[k] \in 0..63
                  ELSE \E d \in 0..63 : b64_lookup[d + 1] = res[k]
             /\ Numeral(digits, 64) = Numeral(lhs, 16)

C8_Witness ==
  /\ fn = "B64Data_from"
  /\ pc = "done"
  /\ lhs = <<15, 9, 1, 15, 15>>
  /\ res = <<3, 57, 7, 63>>

----------------------------------------------------------------------------
(* Properties of the scorer and the attack, checked under SpecAttack *)

Keys == 0..(U8 - 1)

\* the 26 letter entries and the space entry of the frequency table
Symbol(v) == IF v = 32 THEN 27 ELSE IF v <= 90 THEN v - 64 ELSE v - 96

IsLetterOrSpace(v) == v \in (65..90) \cup (97..122) \cup {32}

Occurrences(sq, v) == Cardinality({k \in 1..Len(sq) : sq[k] = v})

\* diff(v) of the scorer, in units of 10^-4
Diff(sq, v) ==
  IF IsLetterOrSpace(v)
    THEN Occurrences(sq, v) * FreqScale - ENGLISH_CHAR_FREQUENCIES[Symbol(v)] * Len(sq)
    ELSE Occurrences(sq, v) * FreqScale

RECURSIVE SumOver(_, _, _)
SumOver(sq, lo, hi) ==
  IF lo > hi THEN 0
  ELSE IF lo = hi THEN Diff(sq, lo) * Diff(sq, lo)
  ELSE SumOver(sq, lo, (lo + hi) \div 2) + SumOver(sq, ((lo + hi) \div 2) + 1, hi)

\* the distance of the scorer, in units of 10^-8
Distance(sq) == SumOver(sq, 0, 255)

\* letterRatio <= 0.7: the plaintext the documented filter would discard
LetterCount(sq) == Cardinality({k \in 1..Len(sq) : IsLetterOrSpace(sq[k])})
Discarded(sq) == Len(sq) > 0 /\ 10 * LetterCount(sq) <= 7 * Len(sq)

\* the plaintext and the distance of key k for the ciphertext in lhs
PlainOf(k) == [j \in 1..Len(lhs) |-> u8_xor(lhs[j], k)]
DistanceOf == [k \in Keys |-> Distance(PlainOf(k))]

Attacking == fn = "attack_single_byte_xor"

\* C3: the score of every candidate the attack scores is the sum over the 256
\* byte values v of diff(v)^2, with diff(v) = counts[v] - table[symbol(v)] * len
\* for a letter of either case or a space and diff(v) = counts[v] otherwise;
\* the empty sequence scores 0.
C3_ScoreIsSumOfSquares ==
  (Attacking /\ item # <<>>) =>
    /\ item.score = Distance(item.msg)
    /\ Len(item.msg) = 0 => item.score = 0

\* a candidate with an uppercase letter, a space and no other symbol
C3_Witness ==
  /\ Attacking
  /\ item # <<>>
  /\ item.msg = <<69, 32>>
  /\ item.score = Distance(<<69, 32>>)
  /\ item.score > 0

C2_MinimalDistanceLowestKey ==
  (Attacking /\ pc = "done") =>
    LET d == DistanceOf
    IN  /\ res.score = d[res.key]
        /\ \A k \in Keys : res.score <= d[k]
        /\ \A k \in Keys : d[k] = res.score => res.key <= k

\* two keys tie at the minimum for a non-empty ciphertext
C2_Witness ==
  /\ Attacking
  /\ pc = "done"
  /\ lhs = <<69, 32>>
  /\ res.key = 0
  /\ DistanceOf[101] = res.score

\* C10, the triple: the plaintext has the ciphertext's length, its bytes are
\* the ciphertext's XORed with the returned key, and the score is the
\* scorer's value for it.
C10_Consistent ==
  (Attacking /\ pc = "done") =>
    /\ Len(res.msg) = Len(lhs)
    /\ \A j \in 1..Len(lhs) : res.msg[j] = u8_xor(lhs[j], res.key)
    /\ res.score = freq_and_alphabet_score(res.msg)

\* C10, the order: the first key examined is 0, each step examines the key
\* after the one before it, and the attack returns only after key 255.
C10_Ascending ==
  /\ (pc = "idle" /\ pc' = "loop") => i' = 0
  /\ (pc = "loop" /\ pc' = "loop") => (i' = i + 1 /\ item'.key = i /\ i \in Keys)
  /\ (pc = "loop" /\ pc' = "done") => i = U8

\* C10: the attack examines the keys 0..255 once each in ascending order and
\* returns a self-consistent (key, score, plaintext).
C10_KeysInOrderAndConsistent ==
  [](C10_Consistent) /\ [][Attacking' => C10_Ascending]_vars

C10_Witness ==
  /\ Attacking
  /\ pc = "done"
  /\ i = U8
  /\ Len(lhs) = 2
  /\ res.key > 0
  /\ item.key = 255

====
